---- MODULE Spec2Model ----
(***************************************************************************)
(* A model of AbstractFirestoreRepository (src/AbstractFirestoreRepository *)
(* .ts): repository construction, hydration of document snapshots          *)
(* (transformFirestoreTypes, plainToClass, initializeSubCollections), the  *)
(* query entry points, validate, and the decorators' registrations that    *)
(* the decorator tests pin down.                                           *)
(*                                                                         *)
(* JavaScript values are tagged records [t |-> <type>, ...]; a thrown      *)
(* exception is the value an operation yields instead of its result.       *)
(***************************************************************************)
EXTENDS Integers, Sequences, FiniteSets, TLC

VARIABLES metadataStorage, repo, ret, builders, setCollectionCalls

vars == <<metadataStorage, repo, ret, builders, setCollectionCalls>>

(***************************************************************************)
(* Bounds of the model.                                                    *)
(***************************************************************************)
MaxDepth == 3
MaxSubCols == 2
MaxDocs == 2
MaxLimit == 2
MaxBuilders == 2
MaxDecorated == 2

(***************************************************************************)
(* JavaScript values.                                                      *)
(***************************************************************************)
Null == [t |-> "null"]
Undefined == [t |-> "undefined"]
Str(s) == [t |-> "string", s |-> s]
Num(n) == [t |-> "number", n |-> n]
Bool(b) == [t |-> "boolean", b |-> b]
Obj(f) == [t |-> "Object", f |-> f]
Arr(s) == [t |-> "Array", f |-> s]
Date(ms) == [t |-> "Date", ms |-> ms]
Timestamp(sec) == [t |-> "Timestamp", seconds |-> sec]
GeoPoint(lat, lng) == [t |-> "GeoPoint", latitude |-> lat, longitude |-> lng]
DocumentReference(id, path) == [t |-> "DocumentReference", id |-> id, path |-> path]
TypeError == [t |-> "TypeError"]

NoRepo == [t |-> "none"]
NoRet == [op |-> "none"]

\* What getMetadataStorage() hands out: the store handle (undefined until the
\* store is initialized) and the configuration.
Firestore == [t |-> "Firestore"]
Configs == {[validateModels |-> b] : b \in BOOLEAN}
MetadataStorages == [firestoreRef : {Undefined, Firestore}, config : Configs]
InitializedStorage == [firestoreRef |-> Firestore, config |-> [validateModels |-> TRUE]]

\* The foreign (store-native) value types.
ForeignTypes == {"Timestamp", "GeoPoint", "DocumentReference"}

\* !v
Falsy(v) ==
    \/ v.t \in {"null", "undefined"}
    \/ v.t = "number" /\ v.n = 0
    \/ v.t = "boolean" /\ ~v.b
    \/ v.t = "string" /\ v.s = ""

\* typeof v === 'object', for a value that is not null
TypeofObject(v) == v.t \in {"Object", "Array", "Date"} \union ForeignTypes

\* 'toDate' in v: an own key of a plain object counts like the method of a
\* Timestamp.
HasToDate(v) ==
    \/ v.t = "Timestamp"
    \/ v.t = "Object" /\ "toDate" \in DOMAIN v.f

\* v.toDate(): a Timestamp yields its Date; a stored field named toDate is
\* never callable (the store holds no functions), so the call throws.
CallToDate(v) == IF v.t = "Timestamp" THEN Date(v.seconds * 1000) ELSE TypeError

\* v.constructor.name (no plain object of the key bounds has an own field
\* named constructor)
ConstructorName(v) ==
    CASE v.t = "string" -> "String"
      [] v.t = "number" -> "Number"
      [] v.t = "boolean" -> "Boolean"
      [] OTHER -> v.t

\* The fields of a composite value: Object.keys(obj)
Keys(obj) == DOMAIN obj.f

(***************************************************************************)
(* transformFirestoreTypes: the conversion of one field, and of an object. *)
(* The mutual recursion of the source is one recursive operator over the   *)
(* value: a composite's fields are converted in place, and an exception    *)
(* thrown for one field leaves the whole call.                             *)
(***************************************************************************)
RECURSIVE transformFirestoreTypes(_)
transformField(v) ==
    IF Falsy(v) THEN v
    ELSE IF TypeofObject(v) /\ HasToDate(v) THEN CallToDate(v)
    ELSE IF ConstructorName(v) = "GeoPoint"
         THEN Obj([k \in {"latitude", "longitude"} |->
                     IF k = "latitude" THEN v.latitude ELSE v.longitude])
    ELSE IF ConstructorName(v) = "DocumentReference"
         THEN Obj([k \in {"id", "path"} |-> IF k = "id" THEN v.id ELSE v.path])
    ELSE IF TypeofObject(v) THEN transformFirestoreTypes(v)
    ELSE v

transformFirestoreTypes(obj) ==
    IF obj.t \notin {"Object", "Array"} THEN obj
    ELSE LET g == [k \in Keys(obj) |-> transformField(obj.f[k])]
         IN  IF \E k \in Keys(obj) : g[k] = TypeError
             THEN TypeError
             ELSE [obj EXCEPT !.f = g]

(***************************************************************************)
(* The raw documents the transcoder is applied to: values of up to         *)
(* MaxDepth levels of nesting over the leaves and keys below.              *)
(***************************************************************************)
FalsyLeaves == {Null, Undefined, Num(0), Bool(FALSE), Str("")}
ScalarLeaves == FalsyLeaves \union {Str("s")}
ForeignLeaves == {Timestamp(1), GeoPoint(Num(0), Num(1)),
                  DocumentReference(Str("u1"), Str("users/u1"))}
Leaves == ScalarLeaves \union ForeignLeaves
NestKeys == {"v", "toDate"}
TopKeys == {"a"}

ObjectsOver(keys, vals) == {Obj(f) : f \in UNION {[K -> vals] : K \in SUBSET keys}}

\* The values nested at most d levels deep: the leaves, the composites of
\* leaves, and the one-field objects and the arrays of at most one element
\* that wrap a value nested one level less.
RECURSIVE ValuesAt(_)
ValuesAt(d) ==
    IF d = 0 THEN Leaves
    ELSE LET below == ValuesAt(d - 1)
         IN  Leaves \union ObjectsOver(NestKeys, Leaves)
                \union {Obj([k \in {key} |-> v]) : key \in NestKeys, v \in below}
                \union {Arr(<<>>)} \union {Arr(<<v>>) : v \in below}

RawDocuments == ObjectsOver(TopKeys, ValuesAt(MaxDepth - 1))

\* One call of transformFirestoreTypes, on the raw document at hand.
TransformFirestoreTypes ==
    /\ ret.op = "rawDocument"
    /\ ret' = [op |-> "transformFirestoreTypes", obj |-> ret.obj,
               result |-> transformFirestoreTypes(ret.obj)]
    /\ UNCHANGED <<metadataStorage, repo, builders, setCollectionCalls>>

InitTranscode ==
    /\ metadataStorage = InitializedStorage
    /\ repo = NoRepo
    /\ ret \in {[op |-> "rawDocument", obj |-> obj] : obj \in RawDocuments}
    /\ builders = <<>>
    /\ setCollectionCalls = <<>>

NextTranscode == TransformFirestoreTypes

SpecTranscode == InitTranscode /\ [][NextTranscode]_vars

(***************************************************************************)
(* What deserialization is to yield, by the type of each value: the        *)
(* conversion C5 states.                                                   *)
(***************************************************************************)
RECURSIVE Deserialized(_)
Deserialized(v) ==
    CASE v.t = "Timestamp" -> Date(v.seconds * 1000)
      [] v.t = "GeoPoint" ->
           Obj([k \in {"latitude", "longitude"} |->
                  IF k = "latitude" THEN v.latitude ELSE v.longitude])
      [] v.t = "DocumentReference" ->
           Obj([k \in {"id", "path"} |-> IF k = "id" THEN v.id ELSE v.path])
      [] v.t \in {"Object", "Array"} ->
           [v EXCEPT !.f = [k \in DOMAIN v.f |-> Deserialized(v.f[k])]]
      [] OTHER -> v

RECURSIVE NoForeign(_)
NoForeign(v) ==
    /\ v.t \notin ForeignTypes
    /\ v.t \in {"Object", "Array"} => \A k \in DOMAIN v.f : NoForeign(v.f[k])

\* Some composite below the document's top level has an own field toDate.
RECURSIVE HasToDateKeyBelow(_)
HasToDateKeyBelow(v) ==
    /\ v.t \in {"Object", "Array"}
    /\ \E k \in DOMAIN v.f :
         \/ v.f[k].t = "Object" /\ "toDate" \in DOMAIN v.f[k].f
         \/ HasToDateKeyBelow(v.f[k])

\* C5: deserializing a raw document converts every foreign value at every
\* depth by its type, recurses into every nested composite whatever its
\* keys, leaves every other field unchanged and never fails; the result
\* holds no foreign value.
C5_DeserializeConvertsAll ==
    ret.op = "transformFirestoreTypes" =>
        /\ ret.result = Deserialized(ret.obj)
        /\ NoForeign(ret.result)

\* The conversion does hold for the documents in which no nested composite
\* has a field named toDate.
TranscodeWithoutToDateKey ==
    (ret.op = "transformFirestoreTypes" /\ ~HasToDateKeyBelow(ret.obj)) =>
        /\ ret.result = Deserialized(ret.obj)
        /\ NoForeign(ret.result)

TranscodeDeepWitness ==
    /\ ret.op = "transformFirestoreTypes"
    /\ ret.obj = Obj([k \in {"a"} |->
                       Obj([j \in {"v"} |-> Arr(<<Timestamp(1)>>)])])
    /\ ret.result = Obj([k \in {"a"} |->
                          Obj([j \in {"v"} |-> Arr(<<Date(1000)>>)])])

(***************************************************************************)
(* The repository: construction.                                           *)
(***************************************************************************)
\* The collection descriptors the registry can answer with. A descriptor's
\* sub-collections have pairwise distinct propertyKeys, none of them the id
\* field (a propertyKey names the field that exposes the sub-collection).
SubCollectionDescriptors ==
    {[name |-> "comments", entityConstructor |-> "Comment",
      parentEntityConstructor |-> "Post", propertyKey |-> "comments"],
     [name |-> "Likes", entityConstructor |-> "Like",
      parentEntityConstructor |-> "Post", propertyKey |-> "likes"],
     [name |-> "Tags", entityConstructor |-> "Tag",
      parentEntityConstructor |-> "Post", propertyKey |-> "tags"]}

DistinctKeys(subCols) ==
    \A i, j \in DOMAIN subCols :
        subCols[i].propertyKey = subCols[j].propertyKey => i = j

SubCollectionLists ==
    {subCols \in UNION {[1..n -> SubCollectionDescriptors] : n \in 0..MaxSubCols} :
        DistinctKeys(subCols)}

CollectionDescriptors ==
    {[t |-> "CollectionMetadata", name |-> "Posts", entityConstructor |-> "Post",
      subCollections |-> subCols] :
        subCols \in SubCollectionLists}

\* The registry's answer for a key it has no descriptor for.
NoMetadata == Undefined

\* pathOrConstructor: a literal path, or an entity constructor.
PathOrConstructors ==
    {Str("posts"), Str("users/u1/posts"), [t |-> "function", name |-> "Post"]}

\* new AbstractFirestoreRepository(pathOrConstructor), given the metadata
\* storage and what its getCollection answers for the key: the repository
\* built (or none), the error thrown (or none) and the calls made, in order.
UninitializedStoreError == "Firestore must be initialized first"
UnregisteredCollectionError == "There is no metadata stored for"

constructorCollectionFirst(storage, pathOrConstructor, answer) ==
    LET path == IF pathOrConstructor.t = "string" THEN pathOrConstructor.s
                ELSE IF Falsy(answer) THEN "undefined" ELSE answer.name
    IN  IF Falsy(storage.firestoreRef)
        THEN [repo |-> NoRepo, error |-> UninitializedStoreError,
              calls |-> <<"getMetadataStorage">>]
        ELSE IF Falsy(answer)
        THEN [repo |-> NoRepo, error |-> UnregisteredCollectionError,
              calls |-> <<"getMetadataStorage", "getCollection",
                          "firestoreRef.collection">>]
        ELSE [repo |-> [t |-> "Repository", path |-> path, colMetadata |-> answer,
                        config |-> storage.config, firestoreColRef |-> path],
              error |-> "none",
              calls |-> <<"getMetadataStorage", "getCollection",
                          "firestoreRef.collection">>]

constructor(storage, pathOrConstructor, answer) ==
    IF Falsy(storage.firestoreRef)
    THEN [repo |-> NoRepo, error |-> UninitializedStoreError,
          calls |-> <<"getMetadataStorage">>]
    ELSE IF Falsy(answer)
    THEN [repo |-> NoRepo, error |-> UnregisteredCollectionError,
          calls |-> <<"getMetadataStorage", "getCollection">>]
    ELSE LET path == IF pathOrConstructor.t = "string" THEN pathOrConstructor.s
                     ELSE answer.name
         IN  [repo |-> [t |-> "Repository", path |-> path, colMetadata |-> answer,
                        config |-> storage.config, firestoreColRef |-> path],
              error |-> "none",
              calls |-> <<"getMetadataStorage", "getCollection",
                          "firestoreRef.collection">>]

Construct ==
    /\ repo = NoRepo
    /\ ret = NoRet
    /\ \E pathOrConstructor \in PathOrConstructors,
          answer \in CollectionDescriptors \union {NoMetadata} :
         LET r == constructor(metadataStorage, pathOrConstructor, answer)
         IN  /\ repo' = r.repo
             /\ ret' = [op |-> "constructor", pathOrConstructor |-> pathOrConstructor,
                        answer |-> answer, error |-> r.error, calls |-> r.calls]
    /\ UNCHANGED <<metadataStorage, builders, setCollectionCalls>>

\* The caller takes the outcome of the last call and goes on.
Return ==
    /\ ret # NoRet
    /\ ret' = NoRet
    /\ UNCHANGED <<metadataStorage, repo, builders, setCollectionCalls>>

InSeq(x, seq) == \E i \in DOMAIN seq : seq[i] = x

(***************************************************************************)
(* Hydration: extractTFromDocSnap, extractTFromColSnap and what they call. *)
(***************************************************************************)
\* The operation's transaction context: undefined outside a transaction.
NoTran == Undefined
Transactions == {[t |-> "Transaction", n |-> 1], [t |-> "Transaction", n |-> 2]}

\* getRepository(path) of ./helpers, and
\* new FirestoreTransaction(tran).getRepository(path): the repository each
\* hands out, standalone or bound to its transaction.
getRepository(path) ==
    [t |-> "Repository", scope |-> "standalone", tran |-> NoTran, path |-> path]
transactionGetRepository(tran, path) ==
    [t |-> "Repository", scope |-> "transaction", tran |-> tran, path |-> path]

\* `${v}` in a template literal, for the values an id field holds here.
TemplateString(v) ==
    CASE v.t = "string" -> v.s
      [] v.t = "null" -> "null"
      [] v.t = "undefined" -> "undefined"
      [] v.t = "boolean" -> IF v.b THEN "true" ELSE "false"
      [] OTHER -> "[object Object]"

\* Object.assign(target, {[key]: value}) on the fields of target
Assign(f, key, value) ==
    [k \in DOMAIN f \union {key} |-> IF k = key THEN value ELSE f[k]]

\* { id: doc.id, ...data }: a later key of the literal replaces an earlier one
IdThenSpread(id, data) ==
    [k \in {"id"} \union DOMAIN data.f |->
        IF k \in DOMAIN data.f THEN data.f[k] ELSE Str(id)]

\* plainToClass(entityConstructor, plain): an instance of the entity
\* constructor carrying the plain object's fields
plainToClass(entityConstructor, plain) ==
    [t |-> "Entity", ctor |-> entityConstructor, f |-> plain.f]

\* The repository attached for one sub-collection descriptor.
subCollectionRepositoryStandalone(r, entity, subCol, tran) ==
    getRepository(r.path \o "/" \o TemplateString(entity.f["id"]) \o "/" \o subCol.name)

subCollectionRepositoryByKey(r, entity, subCol, tran) ==
    LET pathWithSubCol ==
            r.path \o "/" \o TemplateString(entity.f["id"]) \o "/" \o subCol.propertyKey
    IN  IF ~Falsy(tran)
        THEN transactionGetRepository(tran, pathWithSubCol)
        ELSE getRepository(pathWithSubCol)

subCollectionRepository(r, entity, subCol, tran) ==
    LET pathWithSubCol ==
            r.path \o "/" \o TemplateString(entity.f["id"]) \o "/" \o subCol.name
    IN  IF ~Falsy(tran)
        THEN transactionGetRepository(tran, pathWithSubCol)
        ELSE getRepository(pathWithSubCol)

\* initializeSubCollections(entity, tran): colMetadata.subCollections.forEach,
\* from the i-th descriptor on.
RECURSIVE initializeSubCollectionsFrom(_, _, _, _)
initializeSubCollectionsFrom(r, entity, tran, i) ==
    IF i > Len(r.colMetadata.subCollections) THEN entity
    ELSE LET subCol == r.colMetadata.subCollections[i]
             attached == subCollectionRepository(r, entity, subCol, tran)
         IN  initializeSubCollectionsFrom(
                 r, [entity EXCEPT !.f = Assign(@, subCol.propertyKey, attached)],
                 tran, i + 1)

initializeSubCollections(r, entity, tran) ==
    initializeSubCollectionsFrom(r, entity, tran, 1)

\* extractTFromDocSnap(doc, tran): the value returned (null, the entity, or
\* the exception thrown) and the calls made, in order.
extractTFromDocSnapUnchecked(r, doc, tran) ==
    LET data == IF doc.exists THEN transformFirestoreTypes(doc.data) ELSE TypeError
    IN  IF data = TypeError
        THEN [result |-> TypeError, calls |-> <<"doc.data", "transformFirestoreTypes">>]
        ELSE [result |-> initializeSubCollections(r,
                  plainToClass(r.colMetadata.entityConstructor,
                               Obj(IdThenSpread(doc.id, data))), tran),
              calls |-> <<"doc.data", "transformFirestoreTypes", "plainToClass",
                          "initializeSubCollections">>]

extractTFromDocSnap(r, doc, tran) ==
    IF ~doc.exists THEN [result |-> Null, calls |-> <<>>]
    ELSE LET data == transformFirestoreTypes(doc.data)
         IN  IF data = TypeError
             THEN [result |-> TypeError,
                   calls |-> <<"doc.data", "transformFirestoreTypes">>]
             ELSE [result |-> initializeSubCollections(r,
                       plainToClass(r.colMetadata.entityConstructor,
                                    Obj(IdThenSpread(doc.id, data))), tran),
                   calls |-> <<"doc.data", "transformFirestoreTypes", "plainToClass",
                               "initializeSubCollections">>]

\* extractTFromColSnap(q, tran): q.docs.map; an exception thrown for one
\* document leaves the whole call.
extractTFromColSnap(r, q, tran) ==
    LET each == [i \in DOMAIN q |-> extractTFromDocSnap(r, q[i], tran).result]
    IN  IF \E i \in DOMAIN q : each[i] = TypeError THEN TypeError ELSE Arr(each)

\* The document snapshots handed to hydration. A stored document may hold a
\* field named id, and a field named like a sub-collection's propertyKey.
DocIds == {"d1", "d2"}
StoredKeys == {"id", "comments", "at"}
StoredValues == {Str("d2"), Null, Timestamp(1), Obj([k \in {"toDate"} |-> Str("x")])}
StoredData ==
    {Obj(f) : f \in UNION {[K -> StoredValues] : K \in SUBSET StoredKeys}}
IdValue(data) == IF "id" \in DOMAIN data.f THEN data.f["id"] ELSE Null
DocSnapshots ==
    {[id |-> id, exists |-> TRUE, data |-> data] :
        id \in DocIds, data \in {d \in StoredData : IdValue(d).t \in {"string", "null"}}}
    \union {[id |-> id, exists |-> FALSE, data |-> Undefined] : id \in DocIds}

\* The documents of a query snapshot (all of them exist).
QueryDocs ==
    {[id |-> id, exists |-> TRUE, data |-> Obj(f)] :
        id \in DocIds,
        f \in {<<>>, [k \in {"id"} |-> Str("d2")], [k \in {"comments"} |-> Null],
               [k \in {"at"} |-> Timestamp(1)]}}
QuerySnapshots == UNION {[1..n -> QueryDocs] : n \in 0..MaxDocs}

ExtractTFromDocSnap ==
    /\ repo # NoRepo
    /\ ret = NoRet
    /\ \E doc \in DocSnapshots, tran \in Transactions \union {NoTran} :
         LET r == extractTFromDocSnap(repo, doc, tran)
         IN  ret' = [op |-> "extractTFromDocSnap", doc |-> doc, tran |-> tran,
                     result |-> r.result, calls |-> r.calls]
    /\ UNCHANGED <<metadataStorage, repo, builders, setCollectionCalls>>

ExtractTFromColSnap ==
    /\ repo # NoRepo
    /\ ret = NoRet
    /\ \E q \in QuerySnapshots, tran \in Transactions \union {NoTran} :
         ret' = [op |-> "extractTFromColSnap", q |-> q, tran |-> tran,
                 result |-> extractTFromColSnap(repo, q, tran)]
    /\ UNCHANGED <<metadataStorage, repo, builders, setCollectionCalls>>

Init ==
    /\ metadataStorage \in MetadataStorages
    /\ repo = NoRepo
    /\ ret = NoRet
    /\ builders = <<>>
    /\ setCollectionCalls = <<>>

Next ==
    \/ Construct
    \/ ExtractTFromDocSnap
    \/ ExtractTFromColSnap
    \/ Return

Spec == Init /\ [][Next]_vars

(***************************************************************************)
(* Claims about construction and hydration, checked under Spec.            *)
(***************************************************************************)
\* C1: the entity hydrated from an existing document snapshot has its id
\* equal to the snapshot's document id, whatever the stored data holds (a
\* stored field named id included).
C1_IdFromDocumentId ==
    (ret.op = "extractTFromDocSnap" /\ ret.doc.exists /\ ret.result.t = "Entity") =>
        ret.result.f["id"] = Str(ret.doc.id)

\* C2: construction fails with the uninitialized-store error when the store
\* is not initialized, and with the unregistered-collection error when the
\* registry answers with no descriptor; a failing construction builds no
\* repository and requests no collection reference from the store; it
\* succeeds exactly when the store is initialized and a descriptor exists.
C2_ConstructionErrors ==
    ret.op = "constructor" =>
        LET uninitialized == metadataStorage.firestoreRef = Undefined
            unregistered == ret.answer = NoMetadata
        IN  /\ uninitialized => ret.error = UninitializedStoreError
            /\ (~uninitialized /\ unregistered) =>
                   ret.error = UnregisteredCollectionError
            /\ ret.error # "none" =>
                   /\ repo = NoRepo
                   /\ ~InSeq("firestoreRef.collection", ret.calls)
            /\ ret.error = "none" <=> (~uninitialized /\ ~unregistered)
            /\ ret.error = "none" =>
                   /\ repo # NoRepo
                   /\ InSeq("firestoreRef.collection", ret.calls)

C2_UnregisteredWitness ==
    /\ ret.op = "constructor"
    /\ metadataStorage.firestoreRef = Firestore
    /\ ret.answer = NoMetadata
    /\ ret.error = UnregisteredCollectionError
    /\ repo = NoRepo

\* The text of an entity's id in a path.
IdText(id) == IF id.t = "string" THEN id.s ELSE "null"

\* Every sub-collection descriptor's propertyKey holds a repository bound to
\* <parent path>/<parent id>/<sub-collection name>.
SubCollectionsWired(entity) ==
    \A i \in DOMAIN repo.colMetadata.subCollections :
        LET subCol == repo.colMetadata.subCollections[i]
        IN  /\ subCol.propertyKey \in DOMAIN entity.f
            /\ entity.f[subCol.propertyKey].t = "Repository"
            /\ entity.f[subCol.propertyKey].path =
                   repo.path \o "/" \o IdText(entity.f["id"]) \o "/" \o subCol.name

\* C3: a repository's path is the literal path it was constructed from, else
\* its descriptor's name; and in every hydrated entity each sub-collection
\* descriptor's propertyKey holds a repository bound to
\* <parent path>/<entity id>/<sub-collection name>, whatever fields the
\* stored document carried.
C3_SubCollectionPaths ==
    /\ (ret.op = "constructor" /\ ret.error = "none") =>
           /\ repo.colMetadata = ret.answer
           /\ repo.path = IF ret.pathOrConstructor.t = "string"
                          THEN ret.pathOrConstructor.s ELSE ret.answer.name
    /\ (ret.op = "extractTFromDocSnap" /\ ret.result.t = "Entity") =>
           SubCollectionsWired(ret.result)
    /\ (ret.op = "extractTFromColSnap" /\ ret.result.t = "Array") =>
           \A i \in DOMAIN ret.result.f : SubCollectionsWired(ret.result.f[i])

\* A repository constructed from the entity type hydrates a document that
\* stores a field under a sub-collection's propertyKey.
C3_StoredKeyWitness ==
    /\ ret.op = "extractTFromDocSnap"
    /\ repo.path = "Posts"
    /\ Len(repo.colMetadata.subCollections) = 2
    /\ repo.colMetadata.subCollections[2].propertyKey = "comments"
    /\ ret.result.t = "Entity"
    /\ "comments" \in DOMAIN ret.doc.data.f
    /\ "id" \notin DOMAIN ret.doc.data.f
    /\ ret.result.f["comments"].path = "Posts/" \o ret.doc.id \o "/comments"

\* The repositories attached to an entity follow the operation's scope.
ScopeFollows(entity, tran) ==
    \A i \in DOMAIN repo.colMetadata.subCollections :
        LET attached == entity.f[repo.colMetadata.subCollections[i].propertyKey]
        IN  /\ attached.t = "Repository"
            /\ tran # NoTran =>
                   attached.scope = "transaction" /\ attached.tran = tran
            /\ tran = NoTran =>
                   attached.scope = "standalone" /\ attached.tran = NoTran

\* C4: every sub-collection repository attached during hydration is
\* transaction-scoped against the hydrating operation's transaction when
\* there is one, and standalone when there is none, for a single document
\* and for every entity of a query snapshot.
C4_SubCollectionScope ==
    /\ (ret.op = "extractTFromDocSnap" /\ ret.result.t = "Entity") =>
           ScopeFollows(ret.result, ret.tran)
    /\ (ret.op = "extractTFromColSnap" /\ ret.result.t = "Array") =>
           \A i \in DOMAIN ret.result.f : ScopeFollows(ret.result.f[i], ret.tran)

C4_TransactionWitness ==
    /\ ret.op = "extractTFromColSnap"
    /\ ret.tran = [t |-> "Transaction", n |-> 2]
    /\ ret.result.t = "Array"
    /\ Len(ret.result.f) = 2
    /\ Len(repo.colMetadata.subCollections) = 2
    /\ ret.result.f[2].f[repo.colMetadata.subCollections[2].propertyKey].tran = ret.tran

\* C6: hydrating a snapshot of a document that does not exist yields null,
\* throws nothing and calls neither the value conversion, nor the entity
\* construction, nor the sub-collection wiring.
C6_AbsentDocumentIsNull ==
    (ret.op = "extractTFromDocSnap" /\ ~ret.doc.exists) =>
        /\ ret.result = Null
        /\ ret.calls = <<>>

C6_AbsentWitness ==
    /\ ret.op = "extractTFromDocSnap"
    /\ ~ret.doc.exists
    /\ ret.result = Null
    /\ repo.colMetadata.subCollections # <<>>

(***************************************************************************)
(* The query builder (QueryBuilder.ts), as the specification states it: a  *)
(* new builder holds no clause, and each chaining call yields a builder    *)
(* extended by one clause; limit refuses a negative value.                 *)
(***************************************************************************)
InvalidArgumentError == "limitVal must be greater than 0"

NewQueryBuilder(executor) ==
    [t |-> "QueryBuilder", executor |-> executor, queries |-> <<>>,
     limitVal |-> Undefined, orderByObj |-> <<>>]

QueryBuilderWhere(qb, operator, prop, val) ==
    [qb EXCEPT !.queries = Append(@, [prop |-> prop, val |-> val, operator |-> operator])]

QueryBuilderLimit(qb, limitVal) ==
    IF limitVal < 0 THEN [t |-> "Error", message |-> InvalidArgumentError]
    ELSE [qb EXCEPT !.limitVal = Num(limitVal)]

QueryBuilderOrderBy(qb, prop, direction) ==
    [qb EXCEPT !.orderByObj = Append(@, [fieldPath |-> prop, directionStr |-> direction])]

(***************************************************************************)
(* The repository's query entry points. Each yields the builder returned   *)
(* (or undefined), the error thrown (or none) and the number of builders   *)
(* it constructed.                                                         *)
(***************************************************************************)
Returned(qb) == [result |-> qb, error |-> "none", constructed |-> 1]

\* A repository that keeps one builder and hands it out again.
whereEqualToShared(r, prop, val) ==
    Returned(QueryBuilderWhere(
        IF builders = <<>> THEN NewQueryBuilder(r) ELSE builders[Len(builders)],
        "==", prop, val))

whereEqualTo(r, prop, val) ==
    Returned(QueryBuilderWhere(NewQueryBuilder(r), "==", prop, val))

whereGreaterThan(r, prop, val) ==
    Returned(QueryBuilderWhere(NewQueryBuilder(r), ">", prop, val))

whereGreaterOrEqualThan(r, prop, val) ==
    Returned(QueryBuilderWhere(NewQueryBuilder(r), ">=", prop, val))

whereLessThan(r, prop, val) ==
    Returned(QueryBuilderWhere(NewQueryBuilder(r), "<", prop, val))

whereLessOrEqualThan(r, prop, val) ==
    Returned(QueryBuilderWhere(NewQueryBuilder(r), "<=", prop, val))

whereArrayContains(r, prop, val) ==
    Returned(QueryBuilderWhere(NewQueryBuilder(r), "array-contains", prop, val))

\* limit without the repository's own check: the builder's check throws,
\* after the builder was constructed.
limitUnchecked(r, limitVal) ==
    LET qb == QueryBuilderLimit(NewQueryBuilder(r), limitVal)
    IN  IF qb.t = "Error"
        THEN [result |-> Undefined, error |-> qb.message, constructed |-> 1]
        ELSE Returned(qb)

limit(r, limitVal) ==
    IF limitVal < 0
    THEN [result |-> Undefined, error |-> InvalidArgumentError, constructed |-> 0]
    ELSE Returned(QueryBuilderLimit(NewQueryBuilder(r), limitVal))

orderByAscending(r, prop) ==
    Returned(QueryBuilderOrderBy(NewQueryBuilder(r), prop, "asc"))

orderByDescending(r, prop) ==
    Returned(QueryBuilderOrderBy(NewQueryBuilder(r), prop, "desc"))

Props == {"name", "age"}
Vals == {Str("Ann")}

\* One call of an entry point: the caller keeps the builder returned.
Called(op, args, r) ==
    /\ ret' = [op |-> op, args |-> args, error |-> r.error, result |-> r.result,
               constructed |-> r.constructed]
    /\ builders' = IF r.error = "none" THEN Append(builders, r.result) ELSE builders
    /\ UNCHANGED <<metadataStorage, repo, setCollectionCalls>>

CanCall == repo # NoRepo /\ Len(builders) < MaxBuilders

WhereEqualTo ==
    /\ CanCall
    /\ \E prop \in Props, val \in Vals :
         Called("whereEqualTo", [prop |-> prop, val |-> val],
                whereEqualTo(repo, prop, val))

WhereGreaterThan ==
    /\ CanCall
    /\ \E prop \in Props, val \in Vals :
         Called("whereGreaterThan", [prop |-> prop, val |-> val],
                whereGreaterThan(repo, prop, val))

WhereGreaterOrEqualThan ==
    /\ CanCall
    /\ \E prop \in Props, val \in Vals :
         Called("whereGreaterOrEqualThan", [prop |-> prop, val |-> val],
                whereGreaterOrEqualThan(repo, prop, val))

WhereLessThan ==
    /\ CanCall
    /\ \E prop \in Props, val \in Vals :
         Called("whereLessThan", [prop |-> prop, val |-> val],
                whereLessThan(repo, prop, val))

WhereLessOrEqualThan ==
    /\ CanCall
    /\ \E prop \in Props, val \in Vals :
         Called("whereLessOrEqualThan", [prop |-> prop, val |-> val],
                whereLessOrEqualThan(repo, prop, val))

WhereArrayContains ==
    /\ CanCall
    /\ \E prop \in Props, val \in Vals :
         Called("whereArrayContains", [prop |-> prop, val |-> val],
                whereArrayContains(repo, prop, val))

Limit ==
    /\ CanCall
    /\ \E limitVal \in (0 - MaxLimit)..MaxLimit :
         Called("limit", [limitVal |-> limitVal], limit(repo, limitVal))

OrderByAscending ==
    /\ CanCall
    /\ \E prop \in Props :
         Called("orderByAscending", [prop |-> prop], orderByAscending(repo, prop))

OrderByDescending ==
    /\ CanCall
    /\ \E prop \in Props :
         Called("orderByDescending", [prop |-> prop], orderByDescending(repo, prop))

\* The repositories the entry points are called on: constructed from a
\* literal path and from an entity type.
QueryDescriptors ==
    {d \in CollectionDescriptors : Len(d.subCollections) = 0}
QueryRepos ==
    {constructor(InitializedStorage, key, d).repo :
        key \in PathOrConstructors, d \in QueryDescriptors}

InitQuery ==
    /\ metadataStorage = InitializedStorage
    /\ repo \in QueryRepos
    /\ ret = NoRet
    /\ builders = <<>>
    /\ setCollectionCalls = <<>>

NextQuery ==
    \/ WhereEqualTo
    \/ WhereGreaterThan
    \/ WhereGreaterOrEqualThan
    \/ WhereLessThan
    \/ WhereLessOrEqualThan
    \/ WhereArrayContains
    \/ Limit
    \/ OrderByAscending
    \/ OrderByDescending

SpecQuery == InitQuery /\ [][NextQuery]_vars

(***************************************************************************)
(* Claims about the query entry points, checked under SpecQuery.           *)
(***************************************************************************)
\* C7: limit(n) throws the invalid-argument error for every n < 0, before
\* any query builder is constructed and without handing out a builder (the
\* value is never clamped); for every n >= 0, 0 included, it throws nothing
\* and returns a new query builder whose limit is n.
C7_LimitRejectsNegative ==
    [][ret'.op = "limit" =>
          /\ ret'.args.limitVal < 0 =>
                 /\ ret'.error = InvalidArgumentError
                 /\ ret'.constructed = 0
                 /\ ret'.result = Undefined
                 /\ builders' = builders
          /\ ret'.args.limitVal >= 0 =>
                 /\ ret'.error = "none"
                 /\ ret'.result.t = "QueryBuilder"
                 /\ ret'.result.limitVal = Num(ret'.args.limitVal)
                 /\ builders' = Append(builders, ret'.result)]_vars

C7_NegativeWitness ==
    /\ ret.op = "limit"
    /\ ret.args.limitVal = -1
    /\ ret.error = InvalidArgumentError
    /\ builders = <<>>

WhereOperator(op) ==
    CASE op = "whereEqualTo" -> "=="
      [] op = "whereGreaterThan" -> ">"
      [] op = "whereGreaterOrEqualThan" -> ">="
      [] op = "whereLessThan" -> "<"
      [] op = "whereLessOrEqualThan" -> "<="
      [] op = "whereArrayContains" -> "array-contains"

\* The builder bound to repository r that holds the one clause of a call.
SingleClauseBuilder(r, op, args) ==
    [t |-> "QueryBuilder", executor |-> r,
     queries |-> IF op \in {"limit", "orderByAscending", "orderByDescending"}
                 THEN <<>>
                 ELSE <<[prop |-> args.prop, val |-> args.val,
                         operator |-> WhereOperator(op)]>>,
     limitVal |-> IF op = "limit" THEN Num(args.limitVal) ELSE Undefined,
     orderByObj |-> IF op \in {"orderByAscending", "orderByDescending"}
                    THEN <<[fieldPath |-> args.prop,
                            directionStr |-> IF op = "orderByAscending"
                                             THEN "asc" ELSE "desc"]>>
                    ELSE <<>>]

\* C10: each entry-point call that returns hands out one more query
\* builder, bound to the repository, holding exactly the one clause of that
\* call and none of an earlier call; the builders handed out before and the
\* repository (path, descriptor, configuration) are unchanged.
C10_EntryPointsFreshBuilder ==
    [][(ret'.op # "none" /\ ret'.error = "none") =>
          /\ repo' = repo
          /\ ret'.constructed = 1
          /\ ret'.result = SingleClauseBuilder(repo, ret'.op, ret'.args)
          /\ builders' = Append(builders, ret'.result)]_vars

C10_SecondCallWitness ==
    /\ Len(builders) = 2
    /\ ret.op = "whereEqualTo"
    /\ builders[1].queries # <<>>
    /\ builders[2].queries = <<[prop |-> "age", val |-> Str("Ann"), operator |-> "=="]>>
    /\ builders[2].executor = repo

(***************************************************************************)
(* validate(item).                                                         *)
(***************************************************************************)
\* An error, by where it was raised and the code it carries.
ErrorCodes == {"MODULE_NOT_FOUND", "E_OTHER"}
ErrorFrom(origin, code) == [t |-> "Error", origin |-> origin, code |-> code]
ErrorsFrom(origin) == {ErrorFrom(origin, code) : code \in ErrorCodes}
ValidationSetupError ==
    [t |-> "Error", origin |-> "validate",
     code |-> "It looks like class-validator is not installed"]

\* What the call meets: the outcome of import('class-validator') (loaded,
\* or the error of a module that is not installed, or of one that fails to
\* load), whether item is an instance of the entity class, the outcome of
\* new Entity(), and the outcome of classValidator.validate(entity): the
\* violations its promise resolves to, an error it throws, or an error its
\* promise rejects with.
Loaded == [t |-> "loaded"]
Violations == {Arr(<<>>), Arr(<<Str("name must be a string")>>)}
ValidateEnvs ==
    [import : {Loaded} \union ErrorsFrom("import"),
     isInstance : BOOLEAN,
     newEntity : {Loaded} \union ErrorsFrom("new Entity"),
     validate : {[kind |-> "resolves", value |-> v] : v \in Violations}
                \union {[kind |-> k, value |-> e] :
                          k \in {"throws", "rejects"},
                          e \in ErrorsFrom("classValidator.validate")}]

\* The catch block of validate.
catch(error) ==
    IF error.code = "MODULE_NOT_FOUND"
    THEN [kind |-> "rejects", value |-> ValidationSetupError]
    ELSE [kind |-> "rejects", value |-> error]

\* validate(item): what the promise it returns settles to.
validate(env) ==
    IF env.import # Loaded THEN catch(env.import)
    ELSE IF ~env.isInstance /\ env.newEntity # Loaded THEN catch(env.newEntity)
    ELSE IF env.validate.kind = "throws" THEN catch(env.validate.value)
    ELSE env.validate

Validate ==
    /\ repo # NoRepo
    /\ ret = NoRet
    /\ \E env \in ValidateEnvs :
         ret' = [op |-> "validate", env |-> env, outcome |-> validate(env)]
    /\ UNCHANGED <<metadataStorage, repo, builders, setCollectionCalls>>

InitValidate ==
    /\ metadataStorage \in {m \in MetadataStorages : m.firestoreRef = Firestore}
    /\ repo \in {constructor(metadataStorage, key, d).repo :
                    key \in PathOrConstructors, d \in QueryDescriptors}
    /\ ret = NoRet
    /\ builders = <<>>
    /\ setCollectionCalls = <<>>

NextValidate ==
    \/ Validate
    \/ Return

SpecValidate == InitValidate /\ [][NextValidate]_vars

\* The collaborator is unavailable: importing it fails as a module that is
\* not installed.
CollaboratorUnavailable(env) ==
    env.import # Loaded /\ env.import.code = "MODULE_NOT_FOUND"

\* The first failure the call meets that is not the collaborator's
\* unavailability, if any.
OtherFailure(env) ==
    IF env.import # Loaded THEN env.import
    ELSE IF ~env.isInstance /\ env.newEntity # Loaded THEN env.newEntity
    ELSE IF env.validate.kind # "resolves" THEN env.validate.value
    ELSE Loaded

\* C8: validate returns the collaborator's violations when the collaborator
\* is available; it fails with the setup error when the collaborator is
\* unavailable, and only then; every other failure raised while validating
\* is propagated unchanged.
C8_SetupErrorOnlyWhenUnavailable ==
    ret.op = "validate" =>
        /\ OtherFailure(ret.env) = Loaded =>
               ret.outcome = [kind |-> "resolves", value |-> ret.env.validate.value]
        /\ CollaboratorUnavailable(ret.env) =>
               ret.outcome = [kind |-> "rejects", value |-> ValidationSetupError]
        /\ ret.outcome.value = ValidationSetupError =>
               CollaboratorUnavailable(ret.env)
        /\ (~CollaboratorUnavailable(ret.env) /\ OtherFailure(ret.env) # Loaded) =>
               ret.outcome = [kind |-> "rejects", value |-> OtherFailure(ret.env)]

\* What does hold: the claim for the calls in which no failure of the
\* entity's constructor or of the collaborator's validate carries the code
\* MODULE_NOT_FOUND synchronously.
ValidateWithoutForeignCode ==
    (/\ ret.op = "validate"
     /\ ret.env.newEntity.t = "Error" => ret.env.newEntity.code # "MODULE_NOT_FOUND"
     /\ ret.env.validate.kind = "throws" =>
            ret.env.validate.value.code # "MODULE_NOT_FOUND")
    => /\ OtherFailure(ret.env) = Loaded =>
              ret.outcome = [kind |-> "resolves", value |-> ret.env.validate.value]
       /\ CollaboratorUnavailable(ret.env) =>
              ret.outcome = [kind |-> "rejects", value |-> ValidationSetupError]
       /\ ret.outcome.value = ValidationSetupError =>
              CollaboratorUnavailable(ret.env)
       /\ (~CollaboratorUnavailable(ret.env) /\ OtherFailure(ret.env) # Loaded) =>
              ret.outcome = [kind |-> "rejects", value |-> OtherFailure(ret.env)]

(***************************************************************************)
(* The decorators Collection and SubCollection (Decorators/), as the       *)
(* specification and the decorator tests state them: each hands the        *)
(* registry's setCollection one descriptor. A name is a sequence of        *)
(* characters, so that the default name is computed from the type's name.  *)
(***************************************************************************)
Entity == <<"E", "n", "t", "i", "t", "y">>
SubEntity == <<"S", "u", "b">> \o Entity
User == <<"U", "s", "e", "r">>
Box == <<"B", "o", "x">>
EntityClasses == {Entity, SubEntity, User, Box}
Vowels == {"a", "e", "i", "o", "u"}

\* The plural that appends an s to every word.
pluralAppendS(word) == word \o <<"s">>

\* plural(word): a consonant and y end in ies, a sibilant takes es, any
\* other word takes s.
plural(word) ==
    LET n == Len(word)
    IN  IF n >= 2 /\ word[n] = "y" /\ word[n - 1] \notin Vowels
        THEN SubSeq(word, 1, n - 1) \o <<"i", "e", "s">>
        ELSE IF n >= 1 /\ word[n] \in {"s", "x", "z"}
        THEN word \o <<"e", "s">>
        ELSE word \o <<"s">>

\* The name argument of a decorator: a name, or none.
NoName == <<>>
foo == <<"f", "o", "o">>
subs == <<"s", "u", "b", "s">>
NameArguments == {NoName, foo, subs}
PropertyKeys == {"subentity"}

\* @Collection(entityName) on class entity
Collection(entityName, entity) ==
    [name |-> IF entityName # NoName THEN entityName ELSE plural(entity),
     entityConstructor |-> entity]

\* @SubCollection(subEntity, entityName) on field propertyKey of class parent
SubCollection(subEntity, entityName, parent, propertyKey) ==
    [name |-> IF entityName # NoName THEN entityName ELSE plural(subEntity),
     entityConstructor |-> subEntity,
     parentEntityConstructor |-> parent,
     propertyKey |-> propertyKey]

CollectionDecorator ==
    /\ Len(setCollectionCalls) < MaxDecorated
    /\ \E entity \in EntityClasses, entityName \in NameArguments :
         /\ setCollectionCalls' =
                Append(setCollectionCalls, Collection(entityName, entity))
         /\ ret' = [op |-> "Collection", entityName |-> entityName, entity |-> entity]
    /\ UNCHANGED <<metadataStorage, repo, builders>>

SubCollectionDecorator ==
    /\ Len(setCollectionCalls) < MaxDecorated
    /\ \E subEntity \in {SubEntity, Box}, entityName \in NameArguments,
          parent \in {Entity, User}, propertyKey \in PropertyKeys :
         /\ setCollectionCalls' =
                Append(setCollectionCalls,
                       SubCollection(subEntity, entityName, parent, propertyKey))
         /\ ret' = [op |-> "SubCollection", entityName |-> entityName,
                    entity |-> subEntity, parent |-> parent,
                    propertyKey |-> propertyKey]
    /\ UNCHANGED <<metadataStorage, repo, builders>>

InitDecorators ==
    /\ metadataStorage = InitializedStorage
    /\ repo = NoRepo
    /\ ret = NoRet
    /\ builders = <<>>
    /\ setCollectionCalls = <<>>

NextDecorators ==
    \/ CollectionDecorator
    \/ SubCollectionDecorator

SpecDecorators == InitDecorators /\ [][NextDecorators]_vars

\* The default names of the entity types, as the tests and the language
\* have them.
DefaultName(entity) ==
    CASE entity = Entity -> <<"E", "n", "t", "i", "t", "i", "e", "s">>
      [] entity = SubEntity ->
           <<"S", "u", "b", "E", "n", "t", "i", "t", "i", "e", "s">>
      [] entity = User -> <<"U", "s", "e", "r", "s">>
      [] entity = Box -> <<"B", "o", "x", "e", "s">>

\* C9: a declaration hands the registry exactly one descriptor, the declared
\* one: a collection's explicit name, or without one the pluralized name of
\* its entity type (Entity -> Entities), with the entity type; a
\* sub-collection's explicit name, or without one the pluralized name of
\* the nested type (SubEntity -> SubEntities), with the nested type, the
\* parent type and the propertyKey of the decorated field.
C9_DeclaredDescriptorRegistered ==
    [][/\ ret'.op = "Collection" =>
            setCollectionCalls' = Append(setCollectionCalls,
                [name |-> IF ret'.entityName # NoName THEN ret'.entityName
                          ELSE DefaultName(ret'.entity),
                 entityConstructor |-> ret'.entity])
       /\ ret'.op = "SubCollection" =>
            setCollectionCalls' = Append(setCollectionCalls,
                [name |-> IF ret'.entityName # NoName THEN ret'.entityName
                          ELSE DefaultName(ret'.entity),
                 entityConstructor |-> ret'.entity,
                 parentEntityConstructor |-> ret'.parent,
                 propertyKey |-> ret'.propertyKey])]_vars

C9_DefaultSubCollectionWitness ==
    /\ ret.op = "SubCollection"
    /\ ret.entityName = NoName
    /\ ret.entity = SubEntity
    /\ Len(setCollectionCalls) = 2
    /\ setCollectionCalls[2] =
           [name |-> <<"S", "u", "b", "E", "n", "t", "i", "t", "i", "e", "s">>,
            entityConstructor |-> SubEntity,
            parentEntityConstructor |-> Entity,
            propertyKey |-> "subentity"]
    /\ setCollectionCalls[1] =
           [name |-> <<"E", "n", "t", "i", "t", "i", "e", "s">>,
            entityConstructor |-> Entity]

====
